---- MODULE Spec2Model ----
(***************************************************************************)
(* Model of src/simulation.py: the discrete-time simulation of a nomadic   *)
(* user whose session migrates from the Laptop to the Phone, under one of  *)
(* three agents (Reactive, Myopic, PASS).                                  *)
(*                                                                         *)
(* Units.  Data amounts are kept in eighths of a MB, so that the per-step  *)
(* transfer bandwidth / 8.0 MB is the integer `bandwidth`; the floats the  *)
(* program computes (100.0 - k * 6.25, 100.0 - k * 3.125) are multiples of *)
(* 2^-3 and exact in binary floating point, so the integer model computes  *)
(* what the program computes.  Power is kept in hundredths of a unit.      *)
(*                                                                         *)
(* One loop iteration of Simulation.run is four actions, in the order of   *)
(* the code: ScriptedEvents, Decide, Execute, AccruePower; Return is the   *)
(* code after the loop and ComputePower the summary's derived metric.      *)
(* SpecUser is a caller of User.switch_active_device on a fresh User.      *)
(***************************************************************************)
EXTENDS Integers, FiniteSets

\* ---- configuration constants (src/simulation.py:11-22) ----
SIMULATION_STEPS == 100
SESSION_STATE_SIZE_MB == 100
NETWORK_BANDWIDTH_WIFI_MBps == 50
NETWORK_BANDWIDTH_5G_MBps == 25
\* power rates, in hundredths of a unit
POWER_DRAIN_IDLE == 5
POWER_DRAIN_ACTIVE_HIGH_QOS == 20
POWER_DRAIN_ACTIVE_STD_QOS == 12
POWER_DRAIN_DECISION_CPU_BURST == 10
POWER_DRAIN_TX_WIFI == 30
POWER_DRAIN_TX_5G == 60

\* the two scripted event steps of Simulation.run as written
CONTEXT_CHANGE_STEP == 30
USER_SWITCH_STEP == 60

\* full session size in eighths of a MB
SessionEighths == 8 * SESSION_STATE_SIZE_MB

DeviceNames == {"Laptop", "Phone"}
Agents == {"Reactive", "Myopic", "PASS"}

\* ---- calls explored by SpecUser ----
\* a caller makes up to MaxCalls calls of switch_active_device
MaxCalls == 40
\* the names it asks for: the two devices and a name that is no device
RequestNames == DeviceNames \cup {"Tablet"}

\* ---- scenario timelines explored by SpecScen ----
\* the user switch may fall on any step 0..MaxSwitchStep
MaxSwitchStep == 99
\* the context change falls on the first step, on the step of the code, on a
\* late step (a PREPARE started there is still live when the run ends) or on
\* the last step
CtxSteps == {0, CONTEXT_CHANGE_STEP, 70, SIMULATION_STEPS - 1}
SwitchSteps == 0..MaxSwitchStep

VARIABLES
    agent,                  \* which agent class the Simulation was built with
    ctxStep, switchStep,    \* the steps of the two scripted events
    t, pc,                  \* loop index and position in Simulation.run
    context,                \* User.context
    active_device_name,     \* User.active_device_name
    is_active,              \* Device.is_active, by device name
    is_prepared,            \* Device.is_prepared, by device name
    network_type, network_bandwidth, quality_level,
    migration_in_progress,  \* the job slot (NoJob models None)
    metrics,                \* Simulation.metrics
    is_switching_now,       \* local of run
    udt,                    \* local of run: the snapshot of this step
    decision,               \* local of run: the decision of this step
    power,                  \* metrics['power'], added after the run
    requested,              \* new_device_name of the last switch_active_device
    raised                  \* the exception switch_active_device ended with

vars == <<agent, ctxStep, switchStep, t, pc, context, active_device_name,
          is_active, is_prepared, network_type, network_bandwidth,
          quality_level, migration_in_progress, metrics, is_switching_now,
          udt, decision, power, requested, raised>>

\* ---- values ----
\* None in the job slot
NoJob == [type |-> "None", remaining_mb |-> 0, steps_taken |-> 0,
          bandwidth |-> 0, network_type |-> "None"]

\* metrics has no 'power' key before the summary is computed
NotComputed == [num |-> 0, den |-> 0, error |-> "NotComputed"]

\* the truth value of `self.migration_in_progress`
Live(job) == job.type # "None"

\* the job dict with the step counter started at 0
NewJob_StepsFromZero(kind, bw, nt) ==
    [type |-> kind, remaining_mb |-> SessionEighths, steps_taken |-> 0,
     bandwidth |-> bw, network_type |-> nt]

\* the job dict built at lines 138 and 146
NewJob(kind, bw, nt) ==
    [type |-> kind, remaining_mb |-> SessionEighths, steps_taken |-> 1,
     bandwidth |-> bw, network_type |-> nt]

\* decisions: {} is NoOp (decision.get("action", "NO_OP"))
NoOp == [action |-> "NO_OP", new_level |-> "None"]
Action(a) == [action |-> a, new_level |-> "None"]
AdjustQos(level) == [action |-> "ADJUST_QOS", new_level |-> level]

\* ---- the snapshot ----
\* _get_udt called without its argument: is_switching keeps its default
GetUdt_DefaultFlag(ctx, active, prepared, bw, nt, ql, is_switching) ==
    [user_context |-> ctx, active_device |-> active, devices |-> prepared,
     network_bandwidth |-> bw, network_type |-> nt, quality_level |-> ql,
     is_user_switching_now |-> FALSE]

GetUdt(ctx, active, prepared, bw, nt, ql, is_switching) ==
    [user_context |-> ctx, active_device |-> active, devices |-> prepared,
     network_bandwidth |-> bw, network_type |-> nt, quality_level |-> ql,
     is_user_switching_now |-> is_switching]

EmptyUdt == GetUdt("None", "None", [d \in DeviceNames |-> FALSE], 0, "None",
                   "None", FALSE)

\* ---- the agents ----
ReactiveDecide(u) ==
    IF u.is_user_switching_now THEN Action("EXECUTE_MIGRATION") ELSE NoOp

\* MyopicAgent.decide with its two tests in the other order
MyopicDecide_SwitchFirst(u) ==
    IF u.is_user_switching_now THEN Action("EXECUTE_MIGRATION")
    ELSE IF u.network_type = "5G" /\ u.quality_level = "High"
    THEN AdjustQos("Standard")
    ELSE NoOp

MyopicDecide(u) ==
    IF u.network_type = "5G" /\ u.quality_level = "High"
    THEN AdjustQos("Standard")
    ELSE IF u.is_user_switching_now THEN Action("EXECUTE_MIGRATION")
    ELSE NoOp

PredictIntent(u) ==
    IF u.user_context = "Walking" /\ u.active_device = "Laptop"
    THEN "SWITCH_TO_PHONE" ELSE "STAY"

\* PASS_Agent.decide without the is_preparing test of lines 76-77
PassDecide_NoPreparingTest(u, job) ==
    LET prediction == PredictIntent(u)
    IN  IF prediction = "SWITCH_TO_PHONE" /\ ~u.devices["Phone"]
        THEN Action("PREPARE_MIGRATION")
        ELSE IF u.is_user_switching_now THEN Action("EXECUTE_MIGRATION")
        ELSE NoOp

PassDecide(u, job) ==
    LET prediction == PredictIntent(u)
        is_preparing == Live(job) /\ job.type = "PREPARE"
    IN  IF prediction = "SWITCH_TO_PHONE" /\ ~u.devices["Phone"]
           /\ ~is_preparing
        THEN Action("PREPARE_MIGRATION")
        ELSE IF u.is_user_switching_now THEN Action("EXECUTE_MIGRATION")
        ELSE NoOp

AgentDecide(a, u, job) ==
    CASE a = "Reactive" -> ReactiveDecide(u)
      [] a = "Myopic" -> MyopicDecide(u)
      [] a = "PASS" -> PassDecide(u, job)

\* ---- _execute_action ----
\* The engine state _execute_action reads and writes, as one record.
Sim(job, m, prepared, ql, bw, nt) ==
    [job |-> job, metrics |-> m, is_prepared |-> prepared,
     quality_level |-> ql, network_bandwidth |-> bw, network_type |-> nt]

TxPowerDrain(job) ==
    IF job.network_type = "Wi-Fi" THEN POWER_DRAIN_TX_WIFI
    ELSE POWER_DRAIN_TX_5G

\* AdvanceJob without the branch on the job's type at line 122: every
\* completion has the effect of a PREPARE completion
AdvanceJob_NoKindBranch(s) ==
    LET job == s.job
        m1 == [s.metrics EXCEPT
                 !.total_migration_time = @ + 1,
                 !.total_power_consumed = @ + TxPowerDrain(job)]
        remaining == job.remaining_mb - job.bandwidth
    IN  IF remaining <= 0
        THEN [s EXCEPT !.job = NoJob,
                !.is_prepared = [@ EXCEPT !["Phone"] = TRUE],
                !.metrics = [m1 EXCEPT
                    !.proactive_data_mb = SESSION_STATE_SIZE_MB]]
        ELSE [s EXCEPT !.metrics = m1,
                !.job = [job EXCEPT !.remaining_mb = remaining,
                                    !.steps_taken = @ + 1]]

\* AdvanceJob reading the ambient bandwidth and network type (self.network_*)
\* where lines 116-117 read the job's own
AdvanceJob_AmbientNetwork(s) ==
    LET job == s.job
        tx == IF s.network_type = "Wi-Fi" THEN POWER_DRAIN_TX_WIFI
              ELSE POWER_DRAIN_TX_5G
        m1 == [s.metrics EXCEPT
                 !.total_migration_time = @ + 1,
                 !.total_power_consumed = @ + tx]
        remaining == job.remaining_mb - s.network_bandwidth
    IN  IF remaining <= 0
        THEN IF job.type = "PREPARE"
             THEN [s EXCEPT !.job = NoJob,
                     !.is_prepared = [@ EXCEPT !["Phone"] = TRUE],
                     !.metrics = [m1 EXCEPT
                         !.proactive_data_mb = SESSION_STATE_SIZE_MB]]
             ELSE [s EXCEPT !.job = NoJob,
                     !.metrics = [m1 EXCEPT
                         !.handover_latency_steps = job.steps_taken]]
        ELSE [s EXCEPT !.metrics = m1,
                !.job = [job EXCEPT !.remaining_mb = remaining,
                                    !.steps_taken = @ + 1]]

\* AdvanceJob with `< 0` for the `<= 0` of line 120
AdvanceJob_StrictCompletion(s) ==
    LET job == s.job
        m1 == [s.metrics EXCEPT
                 !.total_migration_time = @ + 1,
                 !.total_power_consumed = @ + TxPowerDrain(job)]
        remaining == job.remaining_mb - job.bandwidth
    IN  IF remaining < 0
        THEN IF job.type = "PREPARE"
             THEN [s EXCEPT !.job = NoJob,
                     !.is_prepared = [@ EXCEPT !["Phone"] = TRUE],
                     !.metrics = [m1 EXCEPT
                         !.proactive_data_mb = SESSION_STATE_SIZE_MB]]
             ELSE [s EXCEPT !.job = NoJob,
                     !.metrics = [m1 EXCEPT
                         !.handover_latency_steps = job.steps_taken]]
        ELSE [s EXCEPT !.metrics = m1,
                !.job = [job EXCEPT !.remaining_mb = remaining,
                                    !.steps_taken = @ + 1]]

\* AdvanceJob counting the completing step as well: an EXECUTE completion
\* records steps_taken + 1
AdvanceJob_CountsCompletingStep(s) ==
    LET job == s.job
        m1 == [s.metrics EXCEPT
                 !.total_migration_time = @ + 1,
                 !.total_power_consumed = @ + TxPowerDrain(job)]
        remaining == job.remaining_mb - job.bandwidth
    IN  IF remaining <= 0
        THEN IF job.type = "PREPARE"
             THEN [s EXCEPT !.job = NoJob,
                     !.is_prepared = [@ EXCEPT !["Phone"] = TRUE],
                     !.metrics = [m1 EXCEPT
                         !.proactive_data_mb = SESSION_STATE_SIZE_MB]]
             ELSE [s EXCEPT !.job = NoJob,
                     !.metrics = [m1 EXCEPT
                         !.handover_latency_steps = job.steps_taken + 1]]
        ELSE [s EXCEPT !.metrics = m1,
                !.job = [job EXCEPT !.remaining_mb = remaining,
                                    !.steps_taken = @ + 1]]

\* lines 111-130: a job is live; the decision is not looked at
AdvanceJob(s) ==
    LET job == s.job
        m1 == [s.metrics EXCEPT
                 !.total_migration_time = @ + 1,
                 !.total_power_consumed = @ + TxPowerDrain(job)]
        remaining == job.remaining_mb - job.bandwidth
    IN  IF remaining <= 0
        THEN IF job.type = "PREPARE"
             THEN [s EXCEPT !.job = NoJob,
                     !.is_prepared = [@ EXCEPT !["Phone"] = TRUE],
                     !.metrics = [m1 EXCEPT
                         !.proactive_data_mb = SESSION_STATE_SIZE_MB]]
             ELSE [s EXCEPT !.job = NoJob,
                     !.metrics = [m1 EXCEPT
                         !.handover_latency_steps = job.steps_taken]]
        ELSE [s EXCEPT !.metrics = m1,
                !.job = [job EXCEPT !.remaining_mb = remaining,
                                    !.steps_taken = @ + 1]]

\* StartAction without the is_prepared test of line 141: EXECUTE_MIGRATION
\* always takes the slow path
StartAction_NoFastPath(d, s) ==
    LET m1 == IF d.action \in {"PREPARE_MIGRATION", "EXECUTE_MIGRATION"}
              THEN [s.metrics EXCEPT !.total_migration_time = @ + 1]
              ELSE s.metrics
    IN  CASE d.action = "PREPARE_MIGRATION" ->
               [s EXCEPT !.metrics = m1,
                  !.job = NewJob("PREPARE", s.network_bandwidth,
                                 s.network_type)]
          [] d.action = "EXECUTE_MIGRATION" ->
               [s EXCEPT !.metrics = m1,
                  !.job = NewJob("EXECUTE", s.network_bandwidth,
                                 s.network_type)]
          [] d.action = "ADJUST_QOS" ->
               [s EXCEPT !.quality_level = d.new_level,
                  !.metrics = [m1 EXCEPT !.total_power_consumed =
                                 @ + POWER_DRAIN_DECISION_CPU_BURST]]
          [] OTHER -> s

\* StartAction counting every action but NO_OP as migration time (the test
\* of line 133 as `action != "NO_OP"`)
StartAction_CountsEveryAction(d, s) ==
    LET m1 == IF d.action # "NO_OP"
              THEN [s.metrics EXCEPT !.total_migration_time = @ + 1]
              ELSE s.metrics
    IN  CASE d.action = "PREPARE_MIGRATION" ->
               [s EXCEPT !.metrics = m1,
                  !.job = NewJob("PREPARE", s.network_bandwidth,
                                 s.network_type)]
          [] d.action = "EXECUTE_MIGRATION" ->
               IF s.is_prepared["Phone"]
               THEN [s EXCEPT !.metrics =
                        [m1 EXCEPT !.handover_latency_steps = 1]]
               ELSE [s EXCEPT !.metrics = m1,
                       !.job = NewJob("EXECUTE", s.network_bandwidth,
                                      s.network_type)]
          [] d.action = "ADJUST_QOS" ->
               [s EXCEPT !.quality_level = d.new_level,
                  !.metrics = [m1 EXCEPT !.total_power_consumed =
                                 @ + POWER_DRAIN_DECISION_CPU_BURST]]
          [] OTHER -> s

\* lines 132-150: no job is live; start the decided action
StartAction(d, s) ==
    LET m1 == IF d.action \in {"PREPARE_MIGRATION", "EXECUTE_MIGRATION"}
              THEN [s.metrics EXCEPT !.total_migration_time = @ + 1]
              ELSE s.metrics
    IN  CASE d.action = "PREPARE_MIGRATION" ->
               [s EXCEPT !.metrics = m1,
                  !.job = NewJob("PREPARE", s.network_bandwidth,
                                 s.network_type)]
          [] d.action = "EXECUTE_MIGRATION" ->
               IF s.is_prepared["Phone"]
               THEN [s EXCEPT !.metrics =
                        [m1 EXCEPT !.handover_latency_steps = 1]]
               ELSE [s EXCEPT !.metrics = m1,
                       !.job = NewJob("EXECUTE", s.network_bandwidth,
                                      s.network_type)]
          [] d.action = "ADJUST_QOS" ->
               [s EXCEPT !.quality_level = d.new_level,
                  !.metrics = [m1 EXCEPT !.total_power_consumed =
                                 @ + POWER_DRAIN_DECISION_CPU_BURST]]
          [] OTHER -> s

\* _execute_action without the `return` of line 130 for a migration
\* decision: the decision is started although a job is live
ExecuteAction_NoReturn(d, s) ==
    IF Live(s.job)
       /\ d.action \notin {"PREPARE_MIGRATION", "EXECUTE_MIGRATION"}
    THEN AdvanceJob(s)
    ELSE StartAction(d, s)

\* _execute_action with the ADJUST_QOS branch ahead of the live-job test:
\* the quality change and its CPU burst are applied although a job is live
ExecuteAction_AdjustsWhileLive(d, s) ==
    IF Live(s.job)
    THEN IF d.action = "ADJUST_QOS"
         THEN AdvanceJob(
                [s EXCEPT !.quality_level = d.new_level,
                   !.metrics = [@ EXCEPT !.total_power_consumed =
                                  @ + POWER_DRAIN_DECISION_CPU_BURST]])
         ELSE AdvanceJob(s)
    ELSE StartAction(d, s)

\* lines 107-150: with a live job the step belongs to the job (return at
\* line 130); otherwise the decision is started
ExecuteAction(d, s) ==
    IF Live(s.job) THEN AdvanceJob(s) ELSE StartAction(d, s)

\* the accrual of lines 164-167 over the active devices only: an inactive
\* device draws nothing
PowerThisStep_ActiveOnly(active, ql) ==
    LET draw(dev) == IF active[dev]
                     THEN (IF ql = "High" THEN POWER_DRAIN_ACTIVE_HIGH_QOS
                           ELSE POWER_DRAIN_ACTIVE_STD_QOS)
                     ELSE 0
    IN  draw("Laptop") + draw("Phone")

\* lines 164-167: this step's draw of the two devices
PowerThisStep(active, ql) ==
    LET draw(dev) == IF active[dev]
                     THEN (IF ql = "High" THEN POWER_DRAIN_ACTIVE_HIGH_QOS
                           ELSE POWER_DRAIN_ACTIVE_STD_QOS)
                     ELSE POWER_DRAIN_IDLE
    IN  draw("Laptop") + draw("Phone")

\* switch_active_device without line 41: the old device stays active
SwitchActiveDevice_KeepOld(active, old, new) ==
    [active EXCEPT ![new] = TRUE]

\* User.switch_active_device, lines 41-43: the is_active map afterwards.
\* Line 41 deactivates the old device, line 42 stores the new name, and
\* self.devices[new] at line 43 raises KeyError for a name that is no device,
\* after lines 41 and 42 have taken effect.
SwitchActiveDevice(active, old, new) ==
    LET deactivated == [active EXCEPT ![old] = FALSE]
    IN  IF new \in DOMAIN active
        THEN [deactivated EXCEPT ![new] = TRUE]
        ELSE deactivated

\* the exception the call ends with
SwitchRaises(active, new) ==
    IF new \in DOMAIN active THEN "None" ELSE "KeyError"

\* ---- initial state: User.__init__ and Simulation.__init__ ----
InitSim ==
    /\ t = 0
    /\ pc = "events"
    /\ context = "At Office"
    /\ active_device_name = "Laptop"
    /\ is_active = [d \in DeviceNames |-> d = "Laptop"]
    /\ is_prepared = [d \in DeviceNames |-> FALSE]
    /\ network_type = "Wi-Fi"
    /\ network_bandwidth = NETWORK_BANDWIDTH_WIFI_MBps
    /\ quality_level = "High"
    /\ migration_in_progress = NoJob
    /\ metrics = [handover_latency_steps |-> 0, total_power_consumed |-> 0,
                  proactive_data_mb |-> 0, total_migration_time |-> 0]
    /\ is_switching_now = FALSE
    /\ udt = EmptyUdt
    /\ decision = NoOp
    /\ power = NotComputed
    /\ requested = "None"
    /\ raised = "None"

\* run_all_simulations: one run per agent, with the event steps of the code
Init ==
    /\ agent \in Agents
    /\ ctxStep = CONTEXT_CHANGE_STEP
    /\ switchStep = USER_SWITCH_STEP
    /\ InitSim

\* the same runs with the two event steps as scenario parameters
InitScen ==
    /\ agent \in Agents
    /\ ctxStep \in CtxSteps
    /\ switchStep \in SwitchSteps
    /\ InitSim

\* ---- Simulation.run ----
\* lines 155-160: the scripted events of step t
ScriptedEvents ==
    /\ pc = "events"
    /\ t < SIMULATION_STEPS
    /\ is_switching_now' = (t = switchStep)
    /\ IF t = ctxStep
       THEN /\ context' = "Walking"
            /\ network_type' = "5G"
            /\ network_bandwidth' = NETWORK_BANDWIDTH_5G_MBps
       ELSE UNCHANGED <<context, network_type, network_bandwidth>>
    /\ IF t = switchStep
       THEN /\ is_active' = SwitchActiveDevice(is_active, active_device_name,
                                               "Phone")
            /\ active_device_name' = "Phone"
            /\ requested' = "Phone"
       ELSE UNCHANGED <<is_active, active_device_name, requested>>
    /\ pc' = "decide"
    /\ UNCHANGED <<power, raised, agent, ctxStep, switchStep, t, is_prepared,
                   quality_level, migration_in_progress, metrics, udt,
                   decision>>

\* lines 161-162: snapshot, then the agent's decision
Decide ==
    /\ pc = "decide"
    /\ LET u == GetUdt(context, active_device_name, is_prepared,
                       network_bandwidth, network_type, quality_level,
                       is_switching_now)
       IN  /\ udt' = u
           /\ decision' = AgentDecide(agent, u, migration_in_progress)
    /\ pc' = "execute"
    /\ UNCHANGED <<power, raised, requested, agent, ctxStep, switchStep, t,
                   context, active_device_name,
                   is_active, is_prepared, network_type, network_bandwidth,
                   quality_level, migration_in_progress, metrics,
                   is_switching_now>>

\* line 163: _execute_action(decision)
Execute ==
    /\ pc = "execute"
    /\ LET s == ExecuteAction(decision,
                    Sim(migration_in_progress, metrics, is_prepared,
                        quality_level, network_bandwidth, network_type))
       IN  /\ migration_in_progress' = s.job
           /\ metrics' = s.metrics
           /\ is_prepared' = s.is_prepared
           /\ quality_level' = s.quality_level
    /\ pc' = "power"
    /\ UNCHANGED <<power, raised, requested, agent, ctxStep, switchStep, t,
                   context, active_device_name,
                   is_active, network_type, network_bandwidth,
                   is_switching_now, udt, decision>>

\* lines 164-167, and the loop's increment
AccruePower ==
    /\ pc = "power"
    /\ metrics' = [metrics EXCEPT !.total_power_consumed =
                      @ + PowerThisStep(is_active, quality_level)]
    /\ t' = t + 1
    /\ pc' = "events"
    /\ UNCHANGED <<power, raised, requested, agent, ctxStep, switchStep,
                   context, active_device_name,
                   is_active, is_prepared, network_type, network_bandwidth,
                   quality_level, migration_in_progress, is_switching_now,
                   udt, decision>>

\* the adjustment of lines 168-169 without the test of the job's type
FinalMetrics_AnyJob(job, m) ==
    IF Live(job)
    THEN [m EXCEPT !.handover_latency_steps = job.steps_taken]
    ELSE m

\* lines 168-169: the metrics the run returns
FinalMetrics(job, m) ==
    IF Live(job) /\ job.type = "EXECUTE"
    THEN [m EXCEPT !.handover_latency_steps = job.steps_taken]
    ELSE m

\* lines 168-170: after the loop
Return ==
    /\ pc = "events"
    /\ t = SIMULATION_STEPS
    /\ metrics' = FinalMetrics(migration_in_progress, metrics)
    /\ pc' = "done"
    /\ UNCHANGED <<power, raised, requested, agent, ctxStep, switchStep, t,
                   context, active_device_name,
                   is_active, is_prepared, network_type, network_bandwidth,
                   quality_level, migration_in_progress, is_switching_now,
                   udt, decision>>

\* ---- the summary: metrics['power'] (lines 291-295, again at 191-196) ----
\* A quotient n / d of the program, kept as a fraction; dividing by zero
\* raises ZeroDivisionError.
Quotient(n, d) ==
    IF d = 0 THEN [num |-> 0, den |-> 0, error |-> "ZeroDivisionError"]
    ELSE [num |-> n, den |-> d, error |-> "None"]

\* the literal 0 of `else 0`
Zero == [num |-> 0, den |-> 1, error |-> "None"]

\* q / d for a fraction q
DivideBy(q, d) ==
    IF q.error # "None" THEN q
    ELSE IF d = 0 THEN [num |-> 0, den |-> 0, error |-> "ZeroDivisionError"]
    ELSE [num |-> q.num, den |-> q.den * d, error |-> "None"]

\* T_for_calc = T, without the max(T, 1) of lines 193 and 292
TForCalc_NoClamp(T) == T

\* T_for_calc = max(T, 1)
TForCalc(T) == IF T > 1 THEN T ELSE 1

\* gamma = (SESSION_STATE_SIZE_MB / total_time) if total_time > 0 else 0
Gamma(total_time) ==
    IF total_time > 0 THEN Quotient(SESSION_STATE_SIZE_MB, total_time)
    ELSE Zero

\* metrics['power'] = gamma / T_for_calc
KleinrockPower(m) ==
    DivideBy(Gamma(m.total_migration_time),
             TForCalc(m.handover_latency_steps))

\* lines 291-295: the derived metric is added to the returned metrics; the
\* four raw counters are only read
ComputePower ==
    /\ pc = "done"
    /\ power' = KleinrockPower(metrics)
    /\ pc' = "summary"
    /\ UNCHANGED <<raised, requested, agent, ctxStep, switchStep, t, context,
                   active_device_name, is_active, is_prepared, network_type,
                   network_bandwidth, quality_level, migration_in_progress,
                   metrics, is_switching_now, udt, decision>>

Next ==
    ScriptedEvents \/ Decide \/ Execute \/ AccruePower \/ Return \/ ComputePower

Spec == Init /\ [][Next]_vars

SpecScen == InitScen /\ [][Next]_vars

TypeOK ==
    /\ agent \in Agents
    /\ t \in 0..SIMULATION_STEPS
    /\ pc \in {"events", "decide", "execute", "power", "done", "summary"}
    /\ context \in {"At Office", "Walking"}
    /\ active_device_name \in DeviceNames
    /\ network_type \in {"Wi-Fi", "5G"}
    /\ quality_level \in {"High", "Standard"}
    /\ migration_in_progress.type \in {"None", "PREPARE", "EXECUTE"}

\* ---- quantities the properties speak of ----
CeilDiv(a, b) == (a + b - 1) \div b

\* the ambient bandwidth the snapshot of step k shows: the context change of
\* step ctxStep is applied before the snapshot of that step
AmbientBandwidthAt(k) ==
    IF k >= ctxStep THEN NETWORK_BANDWIDTH_5G_MBps
    ELSE NETWORK_BANDWIDTH_WIFI_MBps

AmbientNetworkTypeAt(k) == IF k >= ctxStep THEN "5G" ELSE "Wi-Fi"

\* steps a full transfer needs at bandwidth bw: ceil(size / (bw / 8))
SlowPathSteps(bw) == CeilDiv(SessionEighths, bw)

\* the step in which a live job was created: an EXECUTE job at the user
\* switch, a PREPARE job at the context change
CreationStep(job) == IF job.type = "EXECUTE" THEN switchStep ELSE ctxStep

\* the run is over and no PREPARE job was ever created: a PREPARE job either
\* completes (proactive_data_mb is set) or is still in the slot
NoPrepareEver ==
    /\ metrics.proactive_data_mb = 0
    /\ migration_in_progress.type # "PREPARE"

\* a new job is in the slot after the step: full size, steps_taken = 1
Fresh(job) ==
    /\ Live(job)
    /\ job.remaining_mb = SessionEighths
    /\ job.steps_taken = 1

\* ---- C1 ----
\* C1: the job slot changes only in _execute_action; a new job (PREPARE or
\* EXECUTE) appears only in a step at whose start no job was live; a live
\* job is only advanced (same kind, less remaining_mb) or discarded, and its
\* remaining_mb is never set back to the full session size.
C1_SingleJob ==
    [][migration_in_progress' # migration_in_progress =>
         /\ pc = "execute"
         /\ IF Live(migration_in_progress)
            THEN \/ ~Live(migration_in_progress')
                 \/ /\ migration_in_progress'.type = migration_in_progress.type
                    /\ migration_in_progress'.remaining_mb
                         < migration_in_progress.remaining_mb
                    /\ ~Fresh(migration_in_progress')
            ELSE Fresh(migration_in_progress')]_vars

\* a migration decision was returned in a step in which a job was live, and
\* the job went on
C1_Witness ==
    /\ pc = "power"
    /\ decision.action \in {"PREPARE_MIGRATION", "EXECUTE_MIGRATION"}
    /\ Live(migration_in_progress)
    /\ migration_in_progress.steps_taken > 1

C2_SlowPathLatencyWhenExecuteIssued ==
    pc = "done" =>
      /\ (/\ switchStep < SIMULATION_STEPS
          /\ NoPrepareEver
          /\ ~(agent = "Myopic" /\ ctxStep = switchStep)
          /\ switchStep + SlowPathSteps(AmbientBandwidthAt(switchStep))
               <= SIMULATION_STEPS - 1)
         => metrics.handover_latency_steps
              = SlowPathSteps(AmbientBandwidthAt(switchStep))
      /\ (/\ ctxStep = CONTEXT_CHANGE_STEP
          /\ switchStep = USER_SWITCH_STEP
          /\ agent \in {"Reactive", "Myopic"})
         => metrics.handover_latency_steps = 32

C3_FastPathOneStepLater ==
    (/\ pc = "done"
     /\ agent = "PASS"
     /\ ctxStep < switchStep
     /\ switchStep < SIMULATION_STEPS
     /\ (switchStep - ctxStep - 1) * AmbientBandwidthAt(ctxStep)
          >= SessionEighths)
    => /\ metrics.handover_latency_steps = 1
       /\ metrics.proactive_data_mb = SESSION_STATE_SIZE_MB

\* ---- C4 ----
\* C4: in the scenario of the code the PASS agent's PREPARE job, started at
\* step 30, transfers at the Wi-Fi rate and is complete after 16 steps (by
\* step 46), before the user switch at step 60, so that EXECUTE_MIGRATION at
\* step 60 takes the fast path and the run ends with
\* handover_latency_steps = 1.
C4_DefaultPassFastPath ==
    (/\ agent = "PASS"
     /\ ctxStep = CONTEXT_CHANGE_STEP
     /\ switchStep = USER_SWITCH_STEP)
    => /\ migration_in_progress.type = "PREPARE"
          => /\ migration_in_progress.bandwidth = NETWORK_BANDWIDTH_WIFI_MBps
             /\ migration_in_progress.network_type = "Wi-Fi"
             /\ migration_in_progress.steps_taken <= 16
       /\ t > 46 => /\ is_prepared["Phone"]
                    /\ ~Live(migration_in_progress)
       /\ pc = "done" => metrics.handover_latency_steps = 1

\* ---- C5 ----
\* C5: when EXECUTE_MIGRATION is executed with no job live: if the Phone is
\* prepared no job is created and handover_latency_steps becomes 1 in that
\* step; if not, an EXECUTE job with the full session size, steps_taken = 1
\* and the ambient network is created and handover_latency_steps is left.
C5_ExecuteFastOrSlow ==
    [][(/\ pc = "execute"
        /\ decision.action = "EXECUTE_MIGRATION"
        /\ ~Live(migration_in_progress))
       => IF is_prepared["Phone"]
          THEN /\ migration_in_progress' = NoJob
               /\ metrics'.handover_latency_steps = 1
          ELSE /\ migration_in_progress'
                    = NewJob("EXECUTE", network_bandwidth, network_type)
               /\ metrics'.handover_latency_steps
                    = metrics.handover_latency_steps]_vars

\* the fast path was taken in the step just executed
C5_Witness ==
    /\ pc = "power"
    /\ t = switchStep
    /\ decision.action = "EXECUTE_MIGRATION"
    /\ is_prepared["Phone"]
    /\ ~Live(migration_in_progress)
    /\ metrics.handover_latency_steps = 1

\* ---- C6 ----
\* C6: with the Reactive or the Myopic agent, in every state,
\* proactive_data_mb = 0, the Phone is not prepared and no PREPARE job is in
\* the slot.
C6_BaselinesNeverPrepare ==
    agent \in {"Reactive", "Myopic"} =>
      /\ metrics.proactive_data_mb = 0
      /\ ~is_prepared["Phone"]
      /\ migration_in_progress.type # "PREPARE"

\* a baseline agent's migration has run to completion
C6_Witness ==
    /\ agent \in {"Reactive", "Myopic"}
    /\ pc = "power"
    /\ ~Live(migration_in_progress)
    /\ metrics.handover_latency_steps > 1
    /\ metrics.total_migration_time > 1

\* ---- C7 ----
\* C7: in every step in which a job is live, remaining_mb goes down by the
\* bandwidth that was ambient in the job's creation step (over 8), the
\* transmit power charged is the rate of the network type ambient in the
\* creation step, and the job keeps both, whatever the ambient network is now.
C7_FrozenNetwork ==
    [][(pc = "execute" /\ Live(migration_in_progress))
       => LET job == migration_in_progress
              bw0 == AmbientBandwidthAt(CreationStep(job))
              nt0 == AmbientNetworkTypeAt(CreationStep(job))
              tx0 == IF nt0 = "Wi-Fi" THEN POWER_DRAIN_TX_WIFI
                     ELSE POWER_DRAIN_TX_5G
          IN  /\ metrics'.total_power_consumed
                   = metrics.total_power_consumed + tx0
              /\ IF job.remaining_mb - bw0 <= 0
                 THEN ~Live(migration_in_progress')
                 ELSE /\ migration_in_progress'.remaining_mb
                           = job.remaining_mb - bw0
                      /\ migration_in_progress'.bandwidth = bw0
                      /\ migration_in_progress'.network_type = nt0]_vars

\* a job created on Wi-Fi has been advanced in a step after the context
\* change made the ambient network 5G
C7_Witness ==
    /\ pc = "power"
    /\ t > ctxStep
    /\ Live(migration_in_progress)
    /\ migration_in_progress.bandwidth = NETWORK_BANDWIDTH_WIFI_MBps
    /\ network_bandwidth = NETWORK_BANDWIDTH_5G_MBps
    /\ migration_in_progress.remaining_mb
         = SessionEighths
             - (migration_in_progress.steps_taken - 1)
                 * NETWORK_BANDWIDTH_WIFI_MBps

\* ---- C8 ----
\* C8: a job created at the Wi-Fi bandwidth completes exactly in the step in
\* which its steps_taken is 16 (not at 15, not at 17), and an EXECUTE job
\* then records handover_latency_steps = 16.
C8_WifiJobSixteenSteps ==
    [][(/\ pc = "execute"
        /\ Live(migration_in_progress)
        /\ migration_in_progress.bandwidth = NETWORK_BANDWIDTH_WIFI_MBps)
       => /\ ~Live(migration_in_progress')
             <=> migration_in_progress.steps_taken = 16
          /\ migration_in_progress.steps_taken <= 16
          /\ (/\ ~Live(migration_in_progress')
              /\ migration_in_progress.type = "EXECUTE")
             => metrics'.handover_latency_steps = 16]_vars

\* an EXECUTE job created on Wi-Fi has just completed
C8_Witness ==
    /\ pc = "power"
    /\ switchStep < ctxStep
    /\ t = switchStep + 16
    /\ ~Live(migration_in_progress)
    /\ metrics.handover_latency_steps = 16

\* ---- C9 ----
\* C9: after the loop, if an EXECUTE job is still live the returned
\* handover_latency_steps is that job's steps_taken; with a PREPARE job live
\* or no job live the returned metrics are the metrics of the loop.
C9_ReturnAdjustsOnlyLiveExecute ==
    [][(pc = "events" /\ t = SIMULATION_STEPS)
       => IF migration_in_progress.type = "EXECUTE"
          THEN metrics' = [metrics EXCEPT !.handover_latency_steps =
                             migration_in_progress.steps_taken]
          ELSE metrics' = metrics]_vars

\* the run was over with an EXECUTE job live, and the latency was forced
C9_Witness ==
    /\ pc = "done"
    /\ migration_in_progress.type = "EXECUTE"
    /\ migration_in_progress.steps_taken > 1
    /\ metrics.handover_latency_steps = migration_in_progress.steps_taken

\* ---- C10 ----
ExactlyOneActive ==
    /\ Cardinality({d \in DeviceNames : is_active[d]}) = 1
    /\ active_device_name \in DeviceNames
    /\ is_active[active_device_name]

\* C10: in every state exactly one device is active, active_device_name
\* names a device and that device is the active one; and the step that
\* changes a device's preparedness (_execute_action) leaves activation alone.
C10_OneActiveDevice ==
    /\ []ExactlyOneActive
    /\ [][is_prepared' # is_prepared
            => /\ is_active' = is_active
               /\ active_device_name' = active_device_name]_vars

\* after the switch, with the Phone prepared: the Phone alone is active
C10_Witness ==
    /\ t > switchStep
    /\ active_device_name = "Phone"
    /\ is_active["Phone"]
    /\ ~is_active["Laptop"]
    /\ is_prepared["Phone"]

\* ---- C11 ----
\* the draw of one active device at quality ql plus one idle device
ActivePlusIdle(ql) ==
    (IF ql = "High" THEN POWER_DRAIN_ACTIVE_HIGH_QOS
     ELSE POWER_DRAIN_ACTIVE_STD_QOS) + POWER_DRAIN_IDLE

\* C11: no operation ever decreases total_power_consumed, and the accrual
\* that ends every simulation step adds the active-device draw plus the
\* idle-device draw, so the total strictly increases in every step.
C11_PowerStrictlyIncreasing ==
    [][/\ metrics'.total_power_consumed >= metrics.total_power_consumed
       /\ pc = "power"
          => /\ metrics'.total_power_consumed
                  = metrics.total_power_consumed + ActivePlusIdle(quality_level)
             /\ metrics'.total_power_consumed > metrics.total_power_consumed
             /\ t' = t + 1]_vars

\* the run is over; transmit power and a CPU burst were charged on top of
\* the draw of the 100 steps
C11_Witness ==
    /\ pc = "done"
    /\ quality_level = "Standard"
    /\ metrics.total_migration_time > 0
    /\ metrics.total_power_consumed
         > SIMULATION_STEPS * ActivePlusIdle("High")

\* ---- C12 ----
\* C12: for every final metrics record the derived power is computed with
\* no division by zero (the divisor max(handover_latency_steps, 1) is >= 1
\* and gamma divides only by a total_migration_time > 0); it is 0 when
\* total_migration_time = 0 and SESSION_STATE_SIZE_MB /
\* (total_migration_time * max(handover_latency_steps, 1)) otherwise; the
\* raw handover_latency_steps is left as it is and may stay 0.
C12_PowerNeverDividesByZero ==
    /\ [](pc = "summary" =>
            /\ power.error = "None"
            /\ power.den >= 1
            /\ metrics.total_migration_time = 0 => power.num = 0
            /\ metrics.total_migration_time > 0 =>
                 /\ power.num = SESSION_STATE_SIZE_MB
                 /\ power.den = metrics.total_migration_time
                      * (IF metrics.handover_latency_steps = 0 THEN 1
                         ELSE metrics.handover_latency_steps))
    /\ [][pc = "done" => metrics' = metrics]_vars

\* the power of a run that ended with the raw latency 0 after migrating:
\* the divisor was clamped to 1 and the raw field is still 0
C12_Witness ==
    /\ pc = "summary"
    /\ metrics.handover_latency_steps = 0
    /\ metrics.total_migration_time > 0
    /\ power = [num |-> SESSION_STATE_SIZE_MB,
                den |-> metrics.total_migration_time, error |-> "None"]

\* ---- User.switch_active_device called directly ----
\* a fresh User (and engine), with a caller about to call the method
InitUser ==
    /\ agent = "Reactive"
    /\ ctxStep = CONTEXT_CHANGE_STEP
    /\ switchStep = USER_SWITCH_STEP
    /\ t = 0
    /\ pc = "caller"
    /\ context = "At Office"
    /\ active_device_name = "Laptop"
    /\ is_active = [d \in DeviceNames |-> d = "Laptop"]
    /\ is_prepared = [d \in DeviceNames |-> FALSE]
    /\ network_type = "Wi-Fi"
    /\ network_bandwidth = NETWORK_BANDWIDTH_WIFI_MBps
    /\ quality_level = "High"
    /\ migration_in_progress = NoJob
    /\ metrics = [handover_latency_steps |-> 0, total_power_consumed |-> 0,
                  proactive_data_mb |-> 0, total_migration_time |-> 0]
    /\ is_switching_now = FALSE
    /\ udt = EmptyUdt
    /\ decision = NoOp
    /\ power = NotComputed
    /\ requested = "None"
    /\ raised = "None"

\* switch_active_device(name, current_time = t), lines 39-43; an exception
\* ends the caller's sequence of calls
SwitchCall(name) ==
    /\ pc = "caller"
    /\ raised = "None"
    /\ t < MaxCalls
    /\ requested' = name
    /\ is_active' = SwitchActiveDevice(is_active, active_device_name, name)
    /\ active_device_name' = name
    /\ raised' = SwitchRaises(is_active, name)
    /\ t' = t + 1
    /\ UNCHANGED <<power, agent, ctxStep, switchStep, pc, context, is_prepared,
                   network_type, network_bandwidth, quality_level,
                   migration_in_progress, metrics, is_switching_now, udt,
                   decision>>

NextUser == \E name \in RequestNames : SwitchCall(name)

SpecUser == InitUser /\ [][NextUser]_vars

\* ---- C13 ----
\* C13: a call of switch_active_device with a name that is no device ends
\* with an error and leaves the user as it was: the device that was active
\* is still active and active_device_name still names it.
C13_UnknownDeviceRejectedCleanly ==
    [][(pc = "caller" /\ t' = t + 1 /\ requested' \notin DeviceNames)
       => /\ raised' # "None"
          /\ is_active' = is_active
          /\ active_device_name' = active_device_name]_vars

\* what does hold: the call ends with KeyError, with the old device
\* deactivated, no device active and active_device_name naming no device
C13_UnknownDeviceHalfApplied ==
    [][(pc = "caller" /\ t' = t + 1 /\ requested' \notin DeviceNames)
       => /\ raised' = "KeyError"
          /\ \A d \in DeviceNames : ~is_active'[d]
          /\ active_device_name' = requested']_vars

\* ---- C14 ----
\* C14: in the step in which a live job's remaining_mb reaches <= 0 the job
\* is discarded; a PREPARE completion makes the Phone prepared and sets
\* proactive_data_mb to the full session size, leaving
\* handover_latency_steps; an EXECUTE completion sets handover_latency_steps
\* to the job's steps_taken, leaving is_prepared and proactive_data_mb.
C14_CompletionEffects ==
    [][(/\ pc = "execute"
        /\ Live(migration_in_progress)
        /\ migration_in_progress.remaining_mb
             - migration_in_progress.bandwidth <= 0)
       => /\ migration_in_progress' = NoJob
          /\ IF migration_in_progress.type = "PREPARE"
             THEN /\ is_prepared' = [is_prepared EXCEPT !["Phone"] = TRUE]
                  /\ metrics'.proactive_data_mb = SESSION_STATE_SIZE_MB
                  /\ metrics'.handover_latency_steps
                       = metrics.handover_latency_steps
             ELSE /\ metrics'.handover_latency_steps
                       = migration_in_progress.steps_taken
                  /\ is_prepared' = is_prepared
                  /\ metrics'.proactive_data_mb
                       = metrics.proactive_data_mb]_vars

\* a PREPARE job has just completed
C14_Witness ==
    /\ pc = "power"
    /\ agent = "PASS"
    /\ t = ctxStep + SlowPathSteps(NETWORK_BANDWIDTH_5G_MBps)
    /\ ~Live(migration_in_progress)
    /\ is_prepared["Phone"]
    /\ metrics.proactive_data_mb = SESSION_STATE_SIZE_MB
    /\ metrics.handover_latency_steps = 0

\* ---- C15 ----
\* the decision the claim gives Reactive for snapshot u
SwitchTriggered(u) ==
    IF u.is_user_switching_now
    THEN [action |-> "EXECUTE_MIGRATION", new_level |-> "None"]
    ELSE [action |-> "NO_OP", new_level |-> "None"]

\* C15: the decision of a step is one action, by first match: Reactive
\* returns EXECUTE_MIGRATION exactly when the snapshot's switching flag is
\* set; Myopic returns ADJUST_QOS{Standard} whenever the snapshot shows 5G
\* and quality High, also when the switching flag is set, and otherwise
\* decides as Reactive does.
C15_DecideFirstMatch ==
    /\ agent = "Reactive" => decision = SwitchTriggered(udt)
    /\ agent = "Myopic" =>
         IF udt.network_type = "5G" /\ udt.quality_level = "High"
         THEN decision = [action |-> "ADJUST_QOS", new_level |-> "Standard"]
         ELSE decision = SwitchTriggered(udt)

\* Myopic on a step whose snapshot shows 5G, quality High and the switching
\* flag: ADJUST_QOS was returned
C15_Witness ==
    /\ agent = "Myopic"
    /\ pc = "execute"
    /\ udt.is_user_switching_now
    /\ udt.network_type = "5G"
    /\ udt.quality_level = "High"
    /\ decision.action = "ADJUST_QOS"

\* ---- C16 ----
\* C16: with the PASS agent, PREPARE_MIGRATION is never the decision of a
\* step in which a job (PREPARE or EXECUTE) is live or the Phone is prepared;
\* a PREPARE job enters the slot only in the context-change step, with no
\* PREPARE completed before, so at most one is started per run.
C16_NoRedundantPrepare ==
    /\ []((/\ agent = "PASS"
           /\ pc = "execute"
           /\ decision.action = "PREPARE_MIGRATION")
          => /\ ~Live(migration_in_progress)
             /\ ~is_prepared["Phone"])
    /\ [][(/\ migration_in_progress'.type = "PREPARE"
           /\ migration_in_progress.type # "PREPARE")
          => /\ t = ctxStep
             /\ ~is_prepared["Phone"]
             /\ metrics.proactive_data_mb = 0]_vars

\* the prediction is still "switch to Phone", a PREPARE job is live, and
\* the decision is not PREPARE_MIGRATION
C16_Witness ==
    /\ agent = "PASS"
    /\ pc = "execute"
    /\ udt.user_context = "Walking"
    /\ udt.active_device = "Laptop"
    /\ migration_in_progress.type = "PREPARE"
    /\ migration_in_progress.steps_taken > 1
    /\ decision.action = "NO_OP"

\* ---- C17 ----
\* the order of the positions of Simulation.run
StepOrder ==
    {<<"events", "decide">>, <<"decide", "execute">>, <<"execute", "power">>,
     <<"power", "events">>, <<"events", "done">>, <<"done", "summary">>}

\* C17: within a step the order is scripted events, snapshot and decision,
\* execution, power accrual.  The snapshot of step t has the switching flag
\* exactly when t is the switch step, and then already shows the Phone as
\* the active device (the Laptop inactive); the snapshot of the
\* context-change step already shows Walking / 5G / 25 MB/s.
C17_StepOrderAndSnapshot ==
    /\ [][pc' # pc => <<pc, pc'>> \in StepOrder]_vars
    /\ [](pc \in {"execute", "power"} =>
            /\ udt.is_user_switching_now <=> t = switchStep
            /\ t = switchStep =>
                 /\ udt.active_device = "Phone"
                 /\ is_active["Phone"]
                 /\ ~is_active["Laptop"]
            /\ t = ctxStep =>
                 /\ udt.user_context = "Walking"
                 /\ udt.network_type = "5G"
                 /\ udt.network_bandwidth = NETWORK_BANDWIDTH_5G_MBps)
    /\ [](pc = "execute" =>
            udt = [user_context |-> context,
                   active_device |-> active_device_name,
                   devices |-> is_prepared,
                   network_bandwidth |-> network_bandwidth,
                   network_type |-> network_type,
                   quality_level |-> quality_level,
                   is_user_switching_now |-> is_switching_now])

\* the snapshot of the switch step, in a run whose context change came
\* earlier
C17_Witness ==
    /\ pc = "execute"
    /\ t = switchStep
    /\ ctxStep < switchStep
    /\ udt.is_user_switching_now
    /\ udt.active_device = "Phone"
    /\ udt.user_context = "Walking"

\* ---- C18 ----
\* C18: total_migration_time changes only in _execute_action, by exactly 1
\* when a job is live at the start of the step or a PREPARE_MIGRATION or
\* EXECUTE_MIGRATION is started (the fast path included) and by 0
\* otherwise; a slow-path EXECUTE job that completes has contributed its
\* steps_taken + 1.
C18_MigrationTime ==
    /\ [][metrics'.total_migration_time =
            metrics.total_migration_time
              + (IF /\ pc = "execute"
                    /\ \/ Live(migration_in_progress)
                       \/ decision.action \in {"PREPARE_MIGRATION",
                                               "EXECUTE_MIGRATION"}
                 THEN 1 ELSE 0)]_vars
    /\ []((/\ pc = "power"
           /\ ~Live(migration_in_progress)
           /\ metrics.proactive_data_mb = 0
           /\ metrics.handover_latency_steps > 0)
          => metrics.total_migration_time
               = metrics.handover_latency_steps + 1)

\* the fast-path step was counted: 33 steps of the PREPARE job plus 1
C18_Witness ==
    /\ pc = "power"
    /\ t = switchStep
    /\ is_prepared["Phone"]
    /\ metrics.handover_latency_steps = 1
    /\ metrics.total_migration_time
         = SlowPathSteps(NETWORK_BANDWIDTH_5G_MBps) + 2

\* ---- C19 ----
\* C19: a decision returned in a step at whose start a job is live has no
\* effect of its own.  The step advances the job only: transmit power and
\* one unit of total_migration_time are charged, no new job is created,
\* quality_level stays, no CPU burst is charged, and
\* handover_latency_steps changes only by an EXECUTE job's completion.  The
\* decision is not replayed: where the PREPARE job is still live at the
\* switch step, the EXECUTE_MIGRATION of that step is lost and the run ends
\* with no EXECUTE job ever started and handover_latency_steps = 0.
C19_DecisionDroppedWhileJobLive ==
    /\ [][(pc = "execute" /\ Live(migration_in_progress))
          => LET job == migration_in_progress
                 completes == job.remaining_mb - job.bandwidth <= 0
             IN  /\ quality_level' = quality_level
                 /\ metrics'.total_power_consumed
                      = metrics.total_power_consumed + TxPowerDrain(job)
                 /\ metrics'.total_migration_time
                      = metrics.total_migration_time + 1
                 /\ ~Fresh(migration_in_progress')
                 /\ metrics'.handover_latency_steps
                      = IF completes /\ job.type = "EXECUTE"
                        THEN job.steps_taken
                        ELSE metrics.handover_latency_steps]_vars
    /\ []((/\ pc = "done"
           /\ agent = "PASS"
           /\ ctxStep < switchStep
           /\ switchStep < SIMULATION_STEPS
           /\ switchStep <= ctxStep + SlowPathSteps(NETWORK_BANDWIDTH_5G_MBps))
          => /\ metrics.handover_latency_steps = 0
             /\ migration_in_progress.type # "EXECUTE")

\* the EXECUTE_MIGRATION of the switch step met a live PREPARE job: the job
\* went on and nothing of the decision shows
C19_Witness ==
    /\ pc = "power"
    /\ t = switchStep
    /\ decision.action = "EXECUTE_MIGRATION"
    /\ migration_in_progress.type = "PREPARE"
    /\ metrics.handover_latency_steps = 0

\* ---- C20 ----
\* C20: while a job is live, 0 < remaining_mb <= the full session size and
\* remaining_mb = session size - (steps_taken - 1) * (bandwidth / 8);
\* steps_taken is 1 after the creation step (which transfers nothing),
\* goes up by exactly 1 in every later step in which the job stays live and
\* is not incremented in the completing step (the latency an EXECUTE job
\* records is the count before that step); remaining_mb never increases.
C20_JobProgress ==
    /\ [](Live(migration_in_progress) =>
            /\ 0 < migration_in_progress.remaining_mb
            /\ migration_in_progress.remaining_mb <= SessionEighths
            /\ migration_in_progress.steps_taken >= 1
            /\ migration_in_progress.remaining_mb
                 = SessionEighths
                     - (migration_in_progress.steps_taken - 1)
                         * migration_in_progress.bandwidth)
    /\ [][migration_in_progress' # migration_in_progress =>
            IF Live(migration_in_progress)
            THEN IF Live(migration_in_progress')
                 THEN /\ migration_in_progress'.steps_taken
                           = migration_in_progress.steps_taken + 1
                      /\ migration_in_progress'.remaining_mb
                           < migration_in_progress.remaining_mb
                 ELSE migration_in_progress.type = "EXECUTE"
                        => metrics'.handover_latency_steps
                             = migration_in_progress.steps_taken
            ELSE /\ migration_in_progress'.steps_taken = 1
                 /\ migration_in_progress'.remaining_mb = SessionEighths]_vars

\* a 5G job one step before its completion: 3.125 MB left after 31
\* transfers
C20_Witness ==
    /\ Live(migration_in_progress)
    /\ migration_in_progress.bandwidth = NETWORK_BANDWIDTH_5G_MBps
    /\ migration_in_progress.steps_taken = 32
    /\ migration_in_progress.remaining_mb = NETWORK_BANDWIDTH_5G_MBps

====
